---- MODULE Spec2Model ----
(***************************************************************************)
(* Model of notebook-full.ipynb (domain wall pair conversion).             *)
(*                                                                         *)
(* Lengths are integers in picometres (1e-12 m), so 2.5e-9 m is 2500 and   *)
(* a cell centre such as -98.75e-9 m is -98750.  Ms is in A/m, A_ex in     *)
(* fJ/m, DMI_D in uJ/m^2, K in J/m^3 and B_z in mT.                        *)
(*                                                                         *)
(* Two specifications are given.  SpecPred calls the two predicate         *)
(* functions Ms_func and init_m on positions drawn from a bounded set.     *)
(* Spec runs the code cells of the notebook top to bottom; every cell that *)
(* calls into a library may raise, and that ends the run.                  *)
(***************************************************************************)
EXTENDS Integers, Sequences, FiniteSets, TLC

VARIABLES
    pc,          \* index of the next code cell to execute (1..NCells+1)
    status,      \* "running", "failed" or "done"
    trace,       \* the code cells whose execution was started, in order
    raised,      \* the cells whose call raised an exception, in order
    names,       \* the global names bound in the kernel (modules, variables)
    Ms, A_ex, DMI_D, K, u, B_z,   \* the notebook's global parameters
    system,      \* mm.System: name, energy, m, dynamics
    region, mesh,
    md, td,      \* driver objects
    drives,      \* drives stored on disk under the run name, in order
    data,        \* mdata.Data handle
    shown,       \* the drive displayed by data[-1]
    mfm_m_field, \* padded field
    phase_shift, \* MFM phase shift field
    field_rotator,
    images,      \* names of the imaging results computed so far
    p,           \* position handed to a predicate function (SpecPred)
    msRes,       \* result of Ms_func(p), <<>> before the call
    mRes         \* result of init_m(p), <<>> before the call

params == <<Ms, A_ex, DMI_D, K, u, B_z>>
objects == <<system, region, mesh, md, td, drives, data, shown, mfm_m_field,
             phase_shift, field_rotator, images>>
predvars == <<p, msRes, mRes>>
vars == <<pc, status, trace, raised, names, Ms, A_ex, DMI_D, K, u, B_z, system,
          region, mesh, md, td, drives, data, shown, mfm_m_field,
          phase_shift, field_rotator, images, p, msRes, mRes>>

\* Python's None, and the value of a global that is not bound yet
None == <<>>

Abs(a) == IF a < 0 THEN -a ELSE a

(***************************************************************************)
(* Bounds of the model.                                                    *)
(***************************************************************************)
\* positions are sampled within Delta picometres of every threshold
Delta == 1
\* number of distinct results an external solver may return
MaxOutcome == 2

Outcomes == 1..MaxOutcome

(***************************************************************************)
(* Cell 4: material parameters.                                            *)
(***************************************************************************)
Ms_val == 580000
A_ex_val == 15000
DMI_D_val == 3000
K_val == 600000
u_val == <<0, 0, 1>>
B_z_val == 100

(***************************************************************************)
(* Cell 10: the two predicate functions.  Ms_func reads the global Ms at   *)
(* call time.                                                              *)
(***************************************************************************)
Ms_func_and(q) ==
    IF q[1] > 0 /\ Abs(q[2]) < 20000 THEN Ms ELSE 0

Ms_func(q) ==
    IF q[1] > 0 \/ Abs(q[2]) < 20000 THEN Ms ELSE 0

init_m_closed(q) ==
    IF -60000 <= q[1] /\ q[1] < -20000 THEN <<0, 0, -1>> ELSE <<0, 0, 1>>

init_m_inplane(q) ==
    IF -60000 < q[1] /\ q[1] < -20000 THEN <<0, -1, 0>> ELSE <<0, 0, 1>>

init_m(q) ==
    IF -60000 < q[1] /\ q[1] < -20000 THEN <<0, 0, -1>> ELSE <<0, 0, 1>>

(***************************************************************************)
(* Cell 7: region and mesh.  df.Mesh derives the number of cells n from    *)
(* the region's edges and the cell; a cell's centre is                     *)
(* pmin + (index + 1/2) * cell.                                            *)
(***************************************************************************)
region_shifted ==
    [p1 |-> <<-98750, -50000, -10000>>, p2 |-> <<201250, 50000, 0>>]

region_val ==
    [p1 |-> <<-100000, -50000, -10000>>, p2 |-> <<200000, 50000, 0>>]

cell_val == <<2500, 2500, 5000>>

Edges(r) == [i \in 1..3 |-> Abs(r.p2[i] - r.p1[i])]

Pmin(r) == [i \in 1..3 |-> IF r.p1[i] < r.p2[i] THEN r.p1[i] ELSE r.p2[i]]

Pmax(r) == [i \in 1..3 |-> IF r.p1[i] < r.p2[i] THEN r.p2[i] ELSE r.p1[i]]

\* df.Mesh(region=r, cell=c): n is the rounded quotient of edge and cell
Mesh(r, c) ==
    [region |-> r, cell |-> c,
     n |-> [i \in 1..3 |-> (2 * Edges(r)[i] + c[i]) \div (2 * c[i])]]

\* the region is an exact aggregate of the cell
Aggregate(r, c) == \A i \in 1..3 : Edges(r)[i] % c[i] = 0

Indices(m) == (0..(m.n[1] - 1)) \X (0..(m.n[2] - 1)) \X (0..(m.n[3] - 1))

\* mesh.index2point: twice the centre is an integer in every case
Centre(m, idx) ==
    [i \in 1..3 |-> (2 * Pmin(m.region)[i] + (2 * idx[i] + 1) * m.cell[i]) \div 2]

(***************************************************************************)
(* Cell 10: df.Field(mesh, dim=3, value=init_m, norm=Ms_func) gives every  *)
(* cell the direction init_m(centre) scaled to the length Ms_func(centre). *)
(***************************************************************************)
Scale(s, v) == [i \in 1..3 |-> s * v[i]]

FieldValue(q) == Scale(Ms_func(q), init_m(q))

\* A field is kept as its mesh and its origin: "df.Field" (cell values given
\* by FieldValue), or a solver whose result is one of Outcomes.
Field(m, by, o) == [mesh |-> m, by |-> by, outcome |-> o]

(***************************************************************************)
(* The code cells of the notebook in document order: what each does and    *)
(* the global names it reads.                                              *)
(***************************************************************************)
Cell(kind, reads) == [kind |-> kind, reads |-> reads]

Notebook ==
    << Cell("import_hv", {}),
       Cell("import_base", {}),
       Cell("new_system", {"mm"}),
       Cell("constants", {}),
       Cell("set_energy", {"mm", "system", "A_ex", "DMI_D", "K", "u", "B_z"}),
       Cell("show", {"system"}),
       Cell("make_mesh", {"df"}),
       Cell("show", {"mesh"}),
       Cell("show", {"mesh"}),
       Cell("make_field", {"df", "mesh", "system", "Ms"}),
       Cell("show", {"system"}),
       Cell("min_drive", {"mc", "system"}),
       Cell("show", {"system"}),
       Cell("show", {"system", "Ms"}),
       Cell("set_dynamics", {"mm", "system"}),
       Cell("time_drive", {"mc", "system"}),
       Cell("show", {"system", "Ms"}),
       Cell("load_data", {"system"}),
       Cell("show", {"data"}),
       Cell("show_last_drive", {"data", "Ms"}),
       Cell("min_drive_again", {"md", "system"}),
       Cell("show", {"system", "Ms"}),
       Cell("import_mag2exp", {}),
       Cell("pad", {"system"}),
       Cell("show", {"mfm_m_field"}),
       Cell("phase_shift", {"mag2exp", "mfm_m_field"}),
       Cell("set_subregions", {"df", "phase_shift"}),
       Cell("show", {"phase_shift"}),
       Cell("holography", {"mag2exp", "system"}),
       Cell("show", {"holo_image"}),
       Cell("holography_fwhm", {"mag2exp", "system"}),
       Cell("show", {"holo_image_2"}),
       Cell("ltem_defocus", {"mag2exp", "system"}),
       Cell("show", {"system"}),
       Cell("rotate", {"df", "system"}),
       Cell("ltem_defocus_rotated", {"mag2exp", "field_rotator"}) >>

Swap(s, i, j) ==
    [k \in 1..Len(s) |-> IF k = i THEN s[j] ELSE IF k = j THEN s[i] ELSE s[k]]

Drop(s, i) == SubSeq(s, 1, i - 1) \o SubSeq(s, i + 1, Len(s))

\* the field is made after the first minimiser call
Cells_field_late == Swap(Notebook, 10, 12)

\* the mesh is built before the energy equation is set
Cells_mesh_first == Swap(Notebook, 5, 7)

\* the cell that minimises again is missing
Cells_one_min == Drop(Notebook, 21)

\* a run executes the code cells in document order
Cells == Notebook

NCells == Len(Cells)

\* the cell at pc is of the given kind and every name it reads is bound
Ready(kind) ==
    /\ status = "running"
    /\ pc <= NCells
    /\ Cells[pc].kind = kind
    /\ Cells[pc].reads \subseteq names

\* the cell ran to its end: the run goes on with the next cell
Advance ==
    /\ trace' = Append(trace, pc)
    /\ pc' = pc + 1
    /\ status' = IF pc = NCells THEN "done" ELSE "running"
    /\ UNCHANGED raised

(***************************************************************************)
(* The state before the first cell runs.                                   *)
(***************************************************************************)
Init ==
    /\ pc = 1
    /\ status = "running"
    /\ trace = << >>
    /\ raised = << >>
    /\ names = {}
    /\ Ms = 0 /\ A_ex = 0 /\ DMI_D = 0 /\ K = 0 /\ u = None /\ B_z = 0
    /\ system = None
    /\ region = None /\ mesh = None
    /\ md = None /\ td = None
    /\ drives = << >>
    /\ data = None /\ shown = None
    /\ mfm_m_field = None /\ phase_shift = None /\ field_rotator = None
    /\ images = {}
    /\ p = None /\ msRes = None /\ mRes = None

(***************************************************************************)
(* Cells 1, 2 and 23: imports.                                             *)
(***************************************************************************)
ImportHv ==
    /\ Ready("import_hv")
    /\ names' = names \cup {"hv"}
    /\ Advance
    /\ UNCHANGED <<params, objects, predvars>>

ImportBase ==
    /\ Ready("import_base")
    /\ names' = names \cup {"df", "mm", "np", "mc"}
    /\ Advance
    /\ UNCHANGED <<params, objects, predvars>>

ImportMag2exp ==
    /\ Ready("import_mag2exp")
    /\ names' = names \cup {"mag2exp"}
    /\ Advance
    /\ UNCHANGED <<params, objects, predvars>>

(***************************************************************************)
(* Cell 3: system = mm.System(name='dw_pair_conversion')                   *)
(***************************************************************************)
NewSystem ==
    /\ Ready("new_system")
    /\ system' = [name |-> "dw_pair_conversion", energy |-> None, m |-> None,
                  dynamics |-> None]
    /\ names' = names \cup {"system"}
    /\ Advance
    /\ UNCHANGED <<params, region, mesh, md, td, drives, data, shown,
                   mfm_m_field, phase_shift, field_rotator, images, predvars>>

(***************************************************************************)
(* Cell 4: the material parameters.  Plain assignments: the cell calls no  *)
(* library.                                                                *)
(***************************************************************************)
Constants ==
    /\ Ready("constants")
    /\ Ms' = Ms_val
    /\ A_ex' = A_ex_val
    /\ DMI_D' = DMI_D_val
    /\ K' = K_val
    /\ u' = u_val
    /\ B_z' = B_z_val
    /\ names' = names \cup {"Ms", "A_ex", "DMI_D", "K", "u", "B_z"}
    /\ Advance
    /\ UNCHANGED <<objects, predvars>>

(***************************************************************************)
(* Cell 5: system.energy = Exchange + DMI + UniaxialAnisotropy + Demag +   *)
(* Zeeman.  H is B_z / mu0: B_z in mT gives H in A/m.                      *)
(***************************************************************************)
ZeemanH(b) == (b * 7957747) \div 10000

Energy ==
    [Exchange |-> [A |-> A_ex],
     DMI |-> [D |-> DMI_D, crystalclass |-> "Cnv_z"],
     UniaxialAnisotropy |-> [K |-> K, u |-> u],
     Demag |-> [on |-> TRUE],
     Zeeman |-> [H |-> <<0, 0, ZeemanH(B_z)>>]]

SetEnergy ==
    /\ Ready("set_energy")
    /\ system' = [system EXCEPT !.energy = Energy]
    /\ Advance
    /\ UNCHANGED <<names, params, region, mesh, md, td, drives, data, shown,
                   mfm_m_field, phase_shift, field_rotator, images, predvars>>

(***************************************************************************)
(* Cell 7: region and mesh.  df.Mesh raises unless the region is an        *)
(* aggregate of the cell.                                                  *)
(***************************************************************************)
MakeMesh ==
    /\ Ready("make_mesh")
    /\ Aggregate(region_val, cell_val)
    /\ region' = region_val
    /\ mesh' = Mesh(region_val, cell_val)
    /\ names' = names \cup {"region", "mesh"}
    /\ Advance
    /\ UNCHANGED <<params, system, md, td, drives, data, shown, mfm_m_field,
                   phase_shift, field_rotator, images, predvars>>

(***************************************************************************)
(* Cell 10: def Ms_func, def init_m, system.m = df.Field(...)              *)
(***************************************************************************)
MakeField ==
    /\ Ready("make_field")
    /\ system' = [system EXCEPT !.m = Field(mesh, "df.Field", 0)]
    /\ names' = names \cup {"Ms_func", "init_m"}
    /\ Advance
    /\ UNCHANGED <<params, region, mesh, md, td, drives, data, shown,
                   mfm_m_field, phase_shift, field_rotator, images, predvars>>

(***************************************************************************)
(* Cells 12 and 21: md.drive(system).  The driver needs the energy         *)
(* equation and the magnetisation; it stores the drive under the system's  *)
(* name and replaces system.m by the relaxed field.                        *)
(***************************************************************************)
Drivable == system.energy # None /\ system.m # None

Drive(driver, o) ==
    /\ system' = [system EXCEPT !.m = Field(system.m.mesh, driver, o)]
    /\ drives' = Append(drives, [driver |-> driver, name |-> system.name,
                                 outcome |-> o])

MinDrive ==
    /\ Ready("min_drive")
    /\ Drivable
    /\ md' = "MinDriver"
    /\ \E o \in Outcomes : Drive("MinDriver", o)
    /\ names' = names \cup {"md"}
    /\ Advance
    /\ UNCHANGED <<params, region, mesh, td, data, shown, mfm_m_field,
                   phase_shift, field_rotator, images, predvars>>

MinDriveAgain ==
    /\ Ready("min_drive_again")
    /\ Drivable
    /\ \E o \in Outcomes : Drive(md, o)
    /\ Advance
    /\ UNCHANGED <<names, params, region, mesh, md, td, data, shown,
                   mfm_m_field, phase_shift, field_rotator, images, predvars>>

(***************************************************************************)
(* Cell 15: system.dynamics = Precession + Damping + ZhangLi(u=300, ...).  *)
(* u=300 is a keyword argument of ZhangLi: the global u is not rebound.    *)
(* alpha and beta are in tenths.                                           *)
(***************************************************************************)
Dynamics ==
    [Precession |-> [gamma0 |-> "mm.consts.gamma0"],
     Damping |-> [alpha |-> 3],
     ZhangLi |-> [u |-> 300, beta |-> 5]]

SetDynamics_rebinds_u ==
    /\ Ready("set_dynamics")
    /\ system' = [system EXCEPT !.dynamics = Dynamics]
    /\ u' = <<300, 0, 0>>
    /\ Advance
    /\ UNCHANGED <<names, Ms, A_ex, DMI_D, K, B_z, region, mesh, md, td,
                   drives, data, shown, mfm_m_field, phase_shift,
                   field_rotator, images, predvars>>

SetDynamics ==
    /\ Ready("set_dynamics")
    /\ system' = [system EXCEPT !.dynamics = Dynamics]
    /\ Advance
    /\ UNCHANGED <<names, params, region, mesh, md, td, drives, data, shown,
                   mfm_m_field, phase_shift, field_rotator, images, predvars>>

(***************************************************************************)
(* Cell 16: td = mc.TimeDriver(); td.drive(system, t=0.35e-9, n=200)       *)
(***************************************************************************)
TimeDrive ==
    /\ Ready("time_drive")
    /\ Drivable
    /\ system.dynamics # None
    /\ td' = "TimeDriver"
    /\ \E o \in Outcomes : Drive("TimeDriver", o)
    /\ names' = names \cup {"td"}
    /\ Advance
    /\ UNCHANGED <<params, region, mesh, md, data, shown, mfm_m_field,
                   phase_shift, field_rotator, images, predvars>>

(***************************************************************************)
(* Cells 18 and 20: data = mdata.Data(system.name); data[-1].hv(...)       *)
(* The handle keeps the run name; indexing it reads the drives stored      *)
(* under that name at that moment.                                         *)
(***************************************************************************)
LoadData ==
    /\ Ready("load_data")
    /\ data' = [name |-> system.name]
    /\ names' = names \cup {"mdata", "data"}
    /\ Advance
    /\ UNCHANGED <<params, system, region, mesh, md, td, drives, shown,
                   mfm_m_field, phase_shift, field_rotator, images, predvars>>

StoredDrives(name) == SelectSeq(drives, LAMBDA d : d.name = name)

ShowLastDrive ==
    /\ Ready("show_last_drive")
    /\ Len(StoredDrives(data.name)) > 0
    /\ shown' = StoredDrives(data.name)[Len(StoredDrives(data.name))]
    /\ Advance
    /\ UNCHANGED <<names, params, system, region, mesh, md, td, drives, data,
                   mfm_m_field, phase_shift, field_rotator, images, predvars>>

(***************************************************************************)
(* Cell 24: mfm_m_field = system.m.pad({'z': (0, 25)}, mode='constant')    *)
(* pad adds lo cells below and hi cells above along z.                     *)
(***************************************************************************)
PadRegion_swapped(r, c, lo, hi) ==
    [p1 |-> <<Pmin(r)[1], Pmin(r)[2], Pmin(r)[3] - hi * c[3]>>,
     p2 |-> <<Pmax(r)[1], Pmax(r)[2], Pmax(r)[3] + lo * c[3]>>]

PadRegion(r, c, lo, hi) ==
    [p1 |-> <<Pmin(r)[1], Pmin(r)[2], Pmin(r)[3] - lo * c[3]>>,
     p2 |-> <<Pmax(r)[1], Pmax(r)[2], Pmax(r)[3] + hi * c[3]>>]

PadZ(f, lo, hi) ==
    Field(Mesh(PadRegion(f.mesh.region, f.mesh.cell, lo, hi), f.mesh.cell),
          f.by, f.outcome)

Pad ==
    /\ Ready("pad")
    /\ system.m # None
    /\ mfm_m_field' = PadZ(system.m, 0, 25)
    /\ names' = names \cup {"mfm_m_field"}
    /\ Advance
    /\ UNCHANGED <<params, system, region, mesh, md, td, drives, data, shown,
                   phase_shift, field_rotator, images, predvars>>

(***************************************************************************)
(* Cells 26 and 27: the phase shift lives on the padded field's mesh; the  *)
(* subregion 'free' is then assigned to that mesh.                         *)
(***************************************************************************)
PhaseShift ==
    /\ Ready("phase_shift")
    /\ phase_shift' = [mesh |-> mfm_m_field.mesh, subregions |-> None,
                       quality |-> 650, k |-> 3]
    /\ names' = names \cup {"phase_shift"}
    /\ Advance
    /\ UNCHANGED <<params, system, region, mesh, md, td, drives, data, shown,
                   mfm_m_field, field_rotator, images, predvars>>

free_val ==
    [p1 |-> <<-100000, -50000, 5000>>, p2 |-> <<200000, 50000, 100000>>]

SetSubregions ==
    /\ Ready("set_subregions")
    /\ phase_shift' = [phase_shift EXCEPT !.subregions = [free |-> free_val]]
    /\ Advance
    /\ UNCHANGED <<names, params, system, region, mesh, md, td, drives, data,
                   shown, mfm_m_field, field_rotator, images, predvars>>

(***************************************************************************)
(* Cells 29, 31, 33, 35 and 36: holography, LTEM and the rotated field.    *)
(* fwhm is in picometres, the angle in degrees.                            *)
(***************************************************************************)
Image(name, f, arg) == [name |-> name, of |-> f, arg |-> arg]

Holography ==
    /\ Ready("holography")
    /\ system.m # None
    /\ images' = images \cup {Image("holo_image", system.m, None)}
    /\ names' = names \cup {"holo_image"}
    /\ Advance
    /\ UNCHANGED <<params, system, region, mesh, md, td, drives, data, shown,
                   mfm_m_field, phase_shift, field_rotator, predvars>>

HolographyFwhm ==
    /\ Ready("holography_fwhm")
    /\ system.m # None
    /\ images' = images \cup {Image("holo_image_2", system.m, <<15000, 15000>>)}
    /\ names' = names \cup {"holo_image_2"}
    /\ Advance
    /\ UNCHANGED <<params, system, region, mesh, md, td, drives, data, shown,
                   mfm_m_field, phase_shift, field_rotator, predvars>>

LtemDefocus ==
    /\ Ready("ltem_defocus")
    /\ system.m # None
    /\ images' = images \cup {Image("ltem_defocus", system.m, None)}
    /\ Advance
    /\ UNCHANGED <<names, params, system, region, mesh, md, td, drives, data,
                   shown, mfm_m_field, phase_shift, field_rotator, predvars>>

Rotate ==
    /\ Ready("rotate")
    /\ system.m # None
    /\ field_rotator' = [field |-> system.m, seq |-> "y", angles |-> 10]
    /\ names' = names \cup {"field_rotator"}
    /\ Advance
    /\ UNCHANGED <<params, system, region, mesh, md, td, drives, data, shown,
                   mfm_m_field, phase_shift, images, predvars>>

LtemDefocusRotated ==
    /\ Ready("ltem_defocus_rotated")
    /\ images' = images \cup {Image("ltem_defocus", field_rotator.field,
                                    <<field_rotator.seq, field_rotator.angles>>)}
    /\ Advance
    /\ UNCHANGED <<names, params, system, region, mesh, md, td, drives, data,
                   shown, mfm_m_field, phase_shift, field_rotator, predvars>>

(***************************************************************************)
(* The cells that only display a value.                                    *)
(***************************************************************************)
Show ==
    /\ Ready("show")
    /\ Advance
    /\ UNCHANGED <<names, params, objects, predvars>>

(***************************************************************************)
(* Any cell that calls into a library (every cell but the constants) may   *)
(* raise, and a cell that reads an unbound name does raise.  The notebook  *)
(* has no try/except: the exception ends the run at that cell.             *)
(***************************************************************************)
Raise_and_skip ==
    /\ status = "running"
    /\ pc <= NCells
    /\ Cells[pc].kind # "constants"
    /\ trace' = Append(trace, pc)
    /\ raised' = Append(raised, pc)
    /\ pc' = pc + 1
    /\ status' = IF pc = NCells THEN "done" ELSE "running"
    /\ UNCHANGED <<names, params, objects, predvars>>

Raise ==
    /\ status = "running"
    /\ pc <= NCells
    /\ Cells[pc].kind # "constants"
    /\ trace' = Append(trace, pc)
    /\ raised' = Append(raised, pc)
    /\ status' = "failed"
    /\ UNCHANGED <<pc, names, params, objects, predvars>>

Next ==
    \/ ImportHv \/ ImportBase \/ ImportMag2exp
    \/ NewSystem \/ Constants \/ SetEnergy \/ MakeMesh \/ MakeField
    \/ MinDrive \/ SetDynamics \/ TimeDrive \/ LoadData \/ ShowLastDrive
    \/ MinDriveAgain \/ Pad \/ PhaseShift \/ SetSubregions
    \/ Holography \/ HolographyFwhm \/ LtemDefocus \/ Rotate
    \/ LtemDefocusRotated \/ Show \/ Raise

Spec == Init /\ [][Next]_vars

(***************************************************************************)
(* SpecPred: the predicate functions on their own.  The notebook is in the *)
(* state it has right after cell 10 defined them, and each is called on a  *)
(* position p drawn from Positions.                                        *)
(***************************************************************************)
Near(ts) == {t + d : t \in ts, d \in (-Delta)..Delta}

XS == Near({-60000, -20000, 0}) \cup {-100000, 200000}
YS == Near({-20000, 20000}) \cup {-50000, 0, 50000}
ZS == {-7500, -2500, 0}

Positions == XS \X YS \X ZS

\* the run variables after cells 1 to 10
AfterMakeField ==
    /\ pc = 11
    /\ status = "running"
    /\ trace = <<1, 2, 3, 4, 5, 6, 7, 8, 9, 10>>
    /\ raised = << >>
    /\ names = {"hv", "df", "mm", "np", "mc", "system", "Ms", "A_ex", "DMI_D",
                "K", "u", "B_z", "region", "mesh", "Ms_func", "init_m"}
    /\ Ms = Ms_val /\ A_ex = A_ex_val /\ DMI_D = DMI_D_val /\ K = K_val
    /\ u = u_val /\ B_z = B_z_val
    /\ region = region_val
    /\ mesh = Mesh(region_val, cell_val)
    /\ system = [name |-> "dw_pair_conversion", energy |-> Energy,
                 m |-> Field(mesh, "df.Field", 0), dynamics |-> None]
    /\ md = None /\ td = None
    /\ drives = << >>
    /\ data = None /\ shown = None
    /\ mfm_m_field = None /\ phase_shift = None /\ field_rotator = None
    /\ images = {}

InitPred ==
    /\ AfterMakeField
    /\ p \in Positions
    /\ msRes = None
    /\ mRes = None

CallMsFunc ==
    /\ msRes = None
    /\ msRes' = <<Ms_func(p)>>
    /\ UNCHANGED <<pc, status, trace, raised, names, params, objects, p, mRes>>

CallInitM ==
    /\ mRes = None
    /\ mRes' = init_m(p)
    /\ UNCHANGED <<pc, status, trace, raised, names, params, objects, p, msRes>>

NextPred == CallMsFunc \/ CallInitM

SpecPred == InitPred /\ [][NextPred]_vars

\* the state SpecPred starts from is the one a run reaches after cell 10
AfterMakeFieldReached ==
    (pc = 11 /\ status = "running") => AfterMakeField

(***************************************************************************)
(* Properties of the predicate functions (SpecPred).                       *)
(***************************************************************************)
\* the film footprint: x > 0 or |y| < 20 nm
InFootprint(q) == q[1] > 0 \/ (-20000 < q[2] /\ q[2] < 20000)

\* C1: Ms_func(p) is 0 when p is outside the film footprint and the nonzero
\* constant Ms when p is inside it; it is never any other value and it does
\* not depend on z.
C1_MsFuncFootprint ==
    msRes # None =>
        /\ Ms_val # 0
        /\ msRes[1] \in {0, Ms_val}
        /\ InFootprint(p) => msRes[1] = Ms_val
        /\ ~InFootprint(p) => msRes[1] = 0
        /\ \A z \in ZS : Ms_func(<<p[1], p[2], z>>) = msRes[1]

\* a position on the footprint's edge (x = 0, y = 20 nm) gets 0
C1_Witness ==
    /\ msRes = <<0>>
    /\ p[1] = 0
    /\ p[2] = 20000

\* the x-range of the reversed domain: -60 nm < x < -20 nm
InReversedRange(q) == -60000 < q[1] /\ q[1] < -20000

\* C2: init_m(p) is (0, 0, -1) when -60 nm < x < -20 nm (both bounds
\* exclusive) and (0, 0, 1) otherwise, whatever y and z are.
C2_InitMRange ==
    mRes # None =>
        /\ InReversedRange(p) => mRes = <<0, 0, -1>>
        /\ ~InReversedRange(p) => mRes = <<0, 0, 1>>
        /\ \A y \in YS, z \in ZS : init_m(<<p[1], y, z>>) = mRes

\* a position just inside the lower bound is reversed
C2_Witness ==
    /\ mRes = <<0, 0, -1>>
    /\ p[1] = -60000 + 1

\* C7: init_m(p) has Euclidean length exactly 1, its x and y components are
\* 0, and it is parallel or antiparallel to the easy axis u.
C7_InitMUnit ==
    mRes # None =>
        /\ mRes[1] * mRes[1] + mRes[2] * mRes[2] + mRes[3] * mRes[3] = 1
        /\ mRes[1] = 0
        /\ mRes[2] = 0
        /\ u = <<0, 0, 1>>
        /\ mRes = u \/ mRes = Scale(-1, u)

\* both directions occur: an antiparallel one here, next to a nonzero norm
C7_Witness ==
    /\ mRes # None
    /\ mRes[3] = -1
    /\ msRes = <<Ms_val>>

(***************************************************************************)
(* Properties of a run of the notebook (Spec).                             *)
(***************************************************************************)
KindAt(i) == Cells[trace[i]].kind

Count(kinds) == Cardinality({i \in 1..Len(trace) : KindAt(i) \in kinds})

Imaging ==
    {"pad", "phase_shift", "set_subregions", "holography", "holography_fwhm",
     "ltem_defocus", "rotate", "ltem_defocus_rotated"}

\* the stages as the flow is described: constants, mesh/region, energy
\* terms, initial field, minimizer, time-stepper, post-processing/imaging;
\* 0 for a cell that belongs to none of them
DescribedStage(kind) ==
    CASE kind = "constants" -> 1
      [] kind = "make_mesh" -> 2
      [] kind = "set_energy" -> 3
      [] kind = "make_field" -> 4
      [] kind \in {"min_drive", "min_drive_again"} -> 5
      [] kind = "time_drive" -> 6
      [] kind \in Imaging \cup {"load_data", "show_last_drive"} -> 7
      [] OTHER -> 0

\* the stages in the order the notebook has them
NotebookStage(kind) ==
    CASE kind = "constants" -> 1
      [] kind = "set_energy" -> 2
      [] kind = "make_mesh" -> 3
      [] kind = "make_field" -> 4
      [] kind = "min_drive" -> 5
      [] kind = "time_drive" -> 6
      [] kind \in {"load_data", "show_last_drive"} -> 7
      [] kind = "min_drive_again" -> 8
      [] kind \in Imaging -> 9
      [] OTHER -> 0

\* C3 as stated: the steps happen in the order constants, mesh/region,
\* energy terms, initial field, minimizer, time-stepper, post-processing;
\* no step of a later stage happens before a step of an earlier stage.
C3_DescribedOrder ==
    \A i, j \in 1..Len(trace) :
        (i < j /\ DescribedStage(KindAt(i)) # 0 /\ DescribedStage(KindAt(j)) # 0)
            => DescribedStage(KindAt(i)) <= DescribedStage(KindAt(j))

\* C3 amended: the steps happen in the order constants, energy terms,
\* mesh/region, initial field, minimizer, time-stepper, loading of the
\* trajectory data, second minimizer call, imaging; no step of a later stage
\* happens before a step of an earlier stage, and a complete run has gone
\* through all nine stages.
C3_NotebookOrder ==
    /\ \A i, j \in 1..Len(trace) :
        (i < j /\ NotebookStage(KindAt(i)) # 0 /\ NotebookStage(KindAt(j)) # 0)
            => NotebookStage(KindAt(i)) <= NotebookStage(KindAt(j))
    /\ status = "done" =>
        {NotebookStage(KindAt(i)) : i \in 1..Len(trace)} = 0..9

\* a complete run in which the energy was set before the mesh was built
C3_Witness ==
    /\ status = "done"
    /\ \E i, j \in 1..Len(trace) :
        i < j /\ KindAt(i) = "set_energy" /\ KindAt(j) = "make_mesh"

MinKinds == {"min_drive", "min_drive_again"}

\* the minimizer is invoked at position i of the trace after the
\* time-stepper was invoked
MinAfterTime(i) ==
    /\ KindAt(i) \in MinKinds
    /\ \E j \in 1..(i - 1) : KindAt(j) = "time_drive"

\* C4 as stated: in one run the minimizer is invoked exactly once and the
\* time-stepper exactly once, and the minimizer is never invoked again
\* after the time-stepper has run.
C4_SingleMinimizerCall ==
    /\ Count(MinKinds) <= 1
    /\ Count({"time_drive"}) <= 1
    /\ status = "done" => Count(MinKinds) = 1 /\ Count({"time_drive"}) = 1
    /\ \A i \in 1..Len(trace) : ~MinAfterTime(i)

\* C4 amended: in one run the minimizer is invoked exactly twice and the
\* time-stepper exactly once: once before the time-stepper and once after
\* it has run.
C4_TwoMinimizerCalls ==
    /\ Count(MinKinds) <= 2
    /\ Count({"time_drive"}) <= 1
    /\ Cardinality({i \in 1..Len(trace) : MinAfterTime(i)}) <= 1
    /\ status = "done" =>
        /\ Count(MinKinds) = 2
        /\ Count({"time_drive"}) = 1
        /\ Cardinality({i \in 1..Len(trace) : MinAfterTime(i)}) = 1

\* a complete run: three drives are stored, the last by the minimizer
C4_Witness ==
    /\ status = "done"
    /\ Len(drives) = 3
    /\ drives[3].driver = "MinDriver"

\* C5: once assigned, none of Ms, A_ex, DMI_D, K, u, B_z is changed by a
\* later step of the notebook.
C5_ParametersImmutable ==
    [][/\ "Ms" \in names => Ms' = Ms
       /\ "A_ex" \in names => A_ex' = A_ex
       /\ "DMI_D" \in names => DMI_D' = DMI_D
       /\ "K" \in names => K' = K
       /\ "u" \in names => u' = u
       /\ "B_z" \in names => B_z' = B_z]_vars

\* a complete run: the dynamics term took u=300, the easy axis is as set
C5_Witness ==
    /\ status = "done"
    /\ system.dynamics.ZhangLi.u = 300
    /\ params = <<Ms_val, A_ex_val, DMI_D_val, K_val, u_val, B_z_val>>

Invoked(kind) == trace' = Append(trace, pc) /\ Cells[pc].kind = kind

HasDrive(driver) == \E i \in 1..Len(drives) : drives[i].driver = driver

\* C8: at each minimizer call system.energy and system.m are assigned; at
\* the time-stepper call system.dynamics is assigned too and the first
\* minimizer call has completed; the trajectory data is loaded and indexed
\* only after the time-stepper call, the last stored drive then being the
\* time drive.
C8_InputsBeforeDrivers ==
    [][/\ (Invoked("min_drive") \/ Invoked("min_drive_again")) =>
            /\ "system" \in names
            /\ system.energy # None
            /\ system.m # None
       /\ Invoked("time_drive") =>
            /\ "system" \in names
            /\ system.energy # None
            /\ system.m # None
            /\ system.dynamics # None
            /\ HasDrive("MinDriver")
       /\ (Invoked("load_data") \/ Invoked("show_last_drive")) =>
            /\ HasDrive("TimeDriver")
            /\ drives[Len(drives)].driver = "TimeDriver"]_vars

\* a complete run that displayed the time drive as data[-1]
C8_Witness ==
    /\ status = "done"
    /\ shown # None
    /\ shown.driver = "TimeDriver"

(***************************************************************************)
(* Properties of the mesh geometry (Spec).                                 *)
(***************************************************************************)
\* Ms_func with its comparisons x > 0 and |y| < 20 nm made non-strict where
\* s[1], s[2] say so
Ms_func_relaxed(q, s) ==
    IF \/ (IF s[1] THEN q[1] >= 0 ELSE q[1] > 0)
       \/ (IF s[2] THEN Abs(q[2]) <= 20000 ELSE Abs(q[2]) < 20000)
    THEN Ms ELSE 0

\* init_m with its comparisons -60 nm < x and x < -20 nm made non-strict
\* where s[3], s[4] say so
init_m_relaxed(q, s) ==
    IF /\ (IF s[3] THEN -60000 <= q[1] ELSE -60000 < q[1])
       /\ (IF s[4] THEN q[1] <= -20000 ELSE q[1] < -20000)
    THEN <<0, 0, -1>> ELSE <<0, 0, 1>>

FieldValue_relaxed(q, s) == Scale(Ms_func_relaxed(q, s), init_m_relaxed(q, s))

Relaxations == BOOLEAN \X BOOLEAN \X BOOLEAN \X BOOLEAN

OnThreshold(q) ==
    q[1] \in {0, -60000, -20000} \/ Abs(q[2]) = 20000

\* the magnetisation is the field cell 10 made, not yet replaced by a driver
FieldAsMade ==
    /\ "system" \in names
    /\ system.m # None
    /\ system.m.by = "df.Field"

\* C9: the region's edges (300, 100, 10 nm) are exact multiples of the cell
\* (2.5, 2.5, 5 nm), the grid is 120 x 40 x 2, no cell centre lies on a
\* threshold of either predicate, and making any of the strict comparisons
\* non-strict leaves the value of every mesh cell unchanged.
C9_NoCellOnThreshold ==
    FieldAsMade =>
        /\ Edges(system.m.mesh.region) = <<300000, 100000, 10000>>
        /\ system.m.mesh.cell = <<2500, 2500, 5000>>
        /\ Aggregate(system.m.mesh.region, system.m.mesh.cell)
        /\ system.m.mesh.n = <<120, 40, 2>>
        /\ \A idx \in Indices(system.m.mesh) :
            /\ ~OnThreshold(Centre(system.m.mesh, idx))
            /\ \A s \in Relaxations :
                FieldValue_relaxed(Centre(system.m.mesh, idx), s)
                    = FieldValue(Centre(system.m.mesh, idx))

\* the field is made; its first reversed cell is the one centred at
\* x = -58.75 nm and its first cell outside the film the corner cell
C9_Witness ==
    /\ FieldAsMade
    /\ pc = 11
    /\ Centre(system.m.mesh, <<16, 20, 0>>)[1] = -58750
    /\ FieldValue(Centre(system.m.mesh, <<16, 20, 0>>)) = <<0, 0, -Ms_val>>
    /\ FieldValue(Centre(system.m.mesh, <<0, 0, 0>>)) = <<0, 0, 0>>

\* region r lies within region s
Within(r, s) ==
    \A i \in 1..3 : Pmin(s)[i] <= Pmin(r)[i] /\ Pmax(r)[i] <= Pmax(s)[i]

\* the faces of region r are on cell boundaries of mesh m
OnCellBoundaries(r, m) ==
    \A i \in 1..3 :
        /\ (Pmin(r)[i] - Pmin(m.region)[i]) % m.cell[i] = 0
        /\ (Pmax(r)[i] - Pmin(m.region)[i]) % m.cell[i] = 0

\* regions r and s share a point
Intersect(r, s) ==
    \A i \in 1..3 : Pmin(r)[i] <= Pmax(s)[i] /\ Pmin(s)[i] <= Pmax(r)[i]

\* C10: the padded field keeps x, y and the lower z face and reaches up to
\* z = 125 nm (25 more cells); the subregion 'free' of the phase-shift mesh
\* lies within the padded region, on its cell boundaries, and does not
\* intersect the sample layer.
C10_FreeSubregion ==
    /\ "mfm_m_field" \in names =>
        /\ Pmin(mfm_m_field.mesh.region) = <<-100000, -50000, -10000>>
        /\ Pmax(mfm_m_field.mesh.region) = <<200000, 50000, 125000>>
        /\ mfm_m_field.mesh.n = <<120, 40, 27>>
    /\ ("phase_shift" \in names /\ phase_shift.subregions # None) =>
        /\ phase_shift.mesh = mfm_m_field.mesh
        /\ Pmin(phase_shift.subregions.free) = <<-100000, -50000, 5000>>
        /\ Pmax(phase_shift.subregions.free) = <<200000, 50000, 100000>>
        /\ Within(phase_shift.subregions.free, phase_shift.mesh.region)
        /\ OnCellBoundaries(phase_shift.subregions.free, phase_shift.mesh)
        /\ ~Intersect(phase_shift.subregions.free, region)

\* the subregion has been assigned and the run went on to its end
C10_Witness ==
    /\ status = "done"
    /\ "phase_shift" \in names
    /\ phase_shift.subregions # None
    /\ region = region_val

====
